---- MODULE Spec2Model ----
(***************************************************************************)
(* Decoder of the DIRAC MRCONEE file (src/src/mrconee.c): read_mrconee and *)
(* the six record readers, the integer-width test and the symmetry         *)
(* classifier.  The record stream (libunf) is not part of src/; its        *)
(* operations are modelled from section 4.1 of the specification.          *)
(***************************************************************************)
EXTENDS Integers, Sequences, FiniteSets, TLC

(***************************************************************************)
(* Bounds of the model.                                                    *)
(***************************************************************************)
\* largest number of spinors of a fixture
MaxSpinors == 2
\* largest per-irrep active-spinor count of record 2
MaxOcc == 1
\* largest number of decode invocations of one behaviour
MaxRuns == 2
\* SpecOcc: longest spinor sequence, largest count
MaxOccSpinors == 3
MaxOccCount == 2

(***************************************************************************)
(* Program constants.                                                      *)
(***************************************************************************)
DIRAC_INT_4 == 4
DIRAC_INT_8 == 8
\* int fermion_irrep_occs[8]
OccSlots == 8
\* sizeof(double), sizeof(double _Complex)
SizeofDouble == 8
SizeofComplex == 16

\* The content of an int that was never assigned.  It lies outside the
\* values of the fixtures, so it never equals a value read from a file.
Uninit == -1000000

\* A pointer is the empty sequence (NULL) or a one-element sequence.
NULL == <<>>

(***************************************************************************)
(* 64-bit integers as two 32-bit halves (little-endian: lo comes first).   *)
(***************************************************************************)
\* the 8-byte encoding of a value that fits 32 bits (sign extension)
Enc8(v) == [lo |-> v, hi |-> IF v < 0 THEN -1 ELSE 0]
\* (int32_t) x
Cast32(x) == x.lo
\* *(int32_t *) &x : an int64 read through an int32 pointer
Low32(x) == x.lo
\* i < x for a small non-negative int i and an int64 x
Less64(i, x) == IF x.hi = 0 THEN i < x.lo ELSE x.hi > 0

(***************************************************************************)
(* The logical content of a fixture file, and its defects.                 *)
(***************************************************************************)
\* raw irrep-name tables of record 3 (4 characters per name)
NameTables ==
    { <<"A  a", "A  b", "A  3", "A  3", "A  0", "A  4", "A  2", "A  2">>,
      <<"A  a", "A  b">>,
      <<"   A", "   a">>,
      <<"A1 a", "A2 a">>,
      <<"Au a", "Ag a", "Ag b", "Au b">>,
      <<"  AG", "  AU">>,
      <<"X  a", "Y  a">>,
      <<"X  a", "Y  a", "X  b", "Y  b", "X  3", "Y  3">> }

\* one element of record 5: fermion irrep, abelian irrep (1-based), energy;
\* abelian irrep 3 is an irrep of the tables of four and more names only
Elements == { [irp |-> 1, irpa |-> 1, eps |-> 10],
              [irp |-> 2, irpa |-> 3, eps |-> 20] }

SeqsUpTo(S, n) == UNION { [1..k -> S] : k \in 0..n }

\* a defect of a file: none, the file ends after k records, or the declared
\* length of record k is one byte less / more than its fields need
Defects == { <<"none", 0>> }
             \cup { <<"eof", k>> : k \in 0..5 }
             \cup { <<"short", k>> : k \in 1..6 }
             \cup { <<"long", k>> : k \in 1..6 }

\* the flat multiplication table of record 4 for n irreps: entry k (0-based)
\* holds k + 1, so that the table is not symmetric
FlatMultb(n) == [k \in 1..(n * n) |-> k]

\* the flat Fock matrix of record 6 for n spinors
FlatFock(n) == [k \in 1..(n * n) |-> 100 + k]

\* invsym is 2 with two fermion irreps (gerade, ungerade), else 1
Contents ==
    { [ spinors |-> sp, nsymrp |-> Len(na), nactive |-> na,
        invsym |-> Len(na), names |-> nt, defect |-> d ] :
        sp \in SeqsUpTo(Elements, MaxSpinors),
        na \in (SeqsUpTo(0..MaxOcc, 2) \ { <<>> }),
        nt \in NameTables,
        d \in Defects }

\* header values of a content (record 1)
NumSpinors(c) == Len(c.spinors)
\* inversion symmetry flag
InvSym(c) == c.invsym
\* leading count of record 3
NSymRpa(c) == Len(c.names) \div 2

(***************************************************************************)
(* Byte lengths of the records.                                            *)
(***************************************************************************)
\* bytes the header specification "2iW,r8,4iW,r8" consumes
NeedHeader(w) == 6 * w + 2 * SizeofDouble
\* bytes "iW,c14[i4],6iW[i4]" consumes with counts nsymrp and invsym
NeedOccs(w, nsymrp, invsym) ==
    w + 14 * nsymrp + w * nsymrp + 5 * w * invsym
\* bytes "iW,c4[i4]" consumes with count size_repanames
NeedNames(w, size_repanames) == w + 4 * size_repanames
\* bytes "iW[i4]" consumes
NeedMultb(w, multb_size) == w * multb_size
\* bytes "c[i4]" consumes
NeedSpinors(buf_size) == buf_size
\* bytes "z8[i4]" consumes
NeedFock(fock_size) == SizeofComplex * fock_size

\* length of record k of the well-formed w-byte file of content c
WellFormedLen(c, w, k) ==
    CASE k = 1 -> NeedHeader(w)
      [] k = 2 -> NeedOccs(w, c.nsymrp, InvSym(c))
      [] k = 3 -> NeedNames(w, 2 * NSymRpa(c))
      [] k = 4 -> NeedMultb(w, Len(c.names) * Len(c.names))
      [] k = 5 -> NeedSpinors(NumSpinors(c) * (2 * w + SizeofDouble))
      [] k = 6 -> NeedFock(NumSpinors(c) * NumSpinors(c))

\* declared length of record k of the w-byte file of content c
RecLen(c, w, k) ==
    WellFormedLen(c, w, k)
      + (IF c.defect = <<"short", k>> THEN -1
         ELSE IF c.defect = <<"long", k>> THEN 1 ELSE 0)

\* number of records of the file
NumRecs(c) == IF c.defect[1] = "eof" THEN c.defect[2] ELSE 6

\* a defect that can be applied to the content (no negative lengths)
DefectFits(c) ==
    c.defect[1] = "short" =>
        \A w \in {DIRAC_INT_4, DIRAC_INT_8} : WellFormedLen(c, w, c.defect[2]) > 0

(***************************************************************************)
(* State.                                                                  *)
(***************************************************************************)
VARIABLES
    content,             \* logical content of the fixture (immutable input)
    path,                \* argument of read_mrconee: which fixture is read
    pc,                  \* position of read_mrconee
    stream,              \* unf_file_t *file of read_mrconee
    data,                \* mrconee_data_t *data (NULL or one aggregate)
    fermion_irrep_occs,  \* int fermion_irrep_occs[8] of read_mrconee
    nsymrpa,             \* leading count of record 3 (local of record 3)
    returned             \* values returned by the finished invocations

vars == <<content, path, pc, stream, data, fermion_irrep_occs, nsymrpa, returned>>

Paths == {"missing", "mrconee4", "mrconee8"}
\* integer width the fixture was written with
Width(p) == IF p = "mrconee8" THEN DIRAC_INT_8 ELSE DIRAC_INT_4

\* an integer field v of the fixture as decoded with width w into an int32
ReadInt(w, v) == IF w = DIRAC_INT_4 THEN v ELSE Cast32(Enc8(v))
\* an [i4] count taken through a pointer to the w-byte variable holding v
ReadCount(w, v) == IF w = DIRAC_INT_4 THEN v ELSE Low32(Enc8(v))

(***************************************************************************)
(* The record stream (libunf), modelled from the specification.            *)
(*   last: how the latest operation left the stream                        *)
(*   err : error flag of the latest read                                   *)
(***************************************************************************)
ClosedStream == [open |-> FALSE, pos |-> 1, last |-> "none", err |-> FALSE]

unf_open == [open |-> TRUE, pos |-> 1, last |-> "none", err |-> FALSE]

unf_close(s) == [s EXCEPT !.open = FALSE]

\* declared length of the next record, -1 at the end of the stream
unf_next_rec_size(c, w, s) ==
    IF s.pos > NumRecs(c) THEN -1 ELSE RecLen(c, w, s.pos)

\* read the next record with a specification of nfields fields that consumes
\* need bytes: the field count, or -1 when the record is missing or its
\* declared length differs from need; a record that is there is passed
unf_read(c, w, s, need, nfields) ==
    IF s.pos > NumRecs(c)
    THEN [nread |-> -1, stream |-> [s EXCEPT !.last = "failed", !.err = TRUE]]
    ELSE IF RecLen(c, w, s.pos) = need
    THEN [nread |-> nfields,
          stream |-> [s EXCEPT !.pos = @ + 1, !.last = "full", !.err = FALSE]]
    ELSE [nread |-> -1,
          stream |-> [s EXCEPT !.pos = @ + 1, !.last = "partial", !.err = TRUE]]

unf_error(s) == s.err

\* rewind one record; legal only right after a read that read a record
unf_backspace(s) ==
    IF s.last \in {"full", "partial"}
    THEN [s EXCEPT !.pos = @ - 1, !.last = "backspace", !.err = FALSE]
    ELSE [s EXCEPT !.last = "backspace", !.err = TRUE]

(***************************************************************************)
(* The aggregate.                                                          *)
(***************************************************************************)
\* calloc(1, sizeof(mrconee_data_t)): zeros and NULL pointers
\* (a NULL string is "", a NULL array is <<>>)
CallocData ==
    [ dirac_int_size |-> 0, num_spinors |-> 0,
      nuc_rep_energy |-> "0", scf_energy |-> "0",
      group_arith |-> 0, is_spinfree |-> 0, invsym |-> 0,
      num_irreps |-> 0, irrep_names |-> <<>>, point_group |-> "",
      totally_sym_irrep |-> 0, mult_table |-> <<>>,
      occ_numbers |-> <<>>, spinor_irreps |-> <<>>, spinor_energies |-> <<>>,
      fock |-> <<>> ]

\* int fermion_irrep_occs[8]; is not initialised
UninitOccs == [i \in 1..OccSlots |-> Uninit]

Init ==
    /\ content \in { c \in Contents : DefectFits(c) }
    /\ path \in Paths
    /\ pc = "open"
    /\ stream = ClosedStream
    /\ data = NULL
    /\ fermion_irrep_occs = UninitOccs
    /\ nsymrpa = Uninit
    /\ returned = <<>>

\* free_mrconee_data(data); return NULL;
ReturnNull ==
    /\ pc' = "done"
    /\ data' = NULL
    /\ returned' = Append(returned, NULL)

(***************************************************************************)
(* read_mrconee, lines 50-59.                                              *)
(***************************************************************************)
OpenFile ==
    /\ pc = "open"
    /\ IF path = "missing"
       THEN /\ stream' = stream
            /\ ReturnNull
       ELSE /\ stream' = unf_open
            /\ pc' = "probe"
            /\ UNCHANGED <<data, returned>>
    /\ UNCHANGED <<content, path, fermion_irrep_occs, nsymrpa>>

\* a width test that takes every length other than the 4-byte one as 8-byte
test_dirac_integer_size_lax(rec_size) ==
    IF rec_size = 6 * 4 + 2 * SizeofDouble THEN DIRAC_INT_4 ELSE DIRAC_INT_8

\* the comparison of rec_size with the two candidate lengths
test_dirac_integer_size(rec_size) ==
    IF rec_size = 6 * 4 + 2 * SizeofDouble THEN DIRAC_INT_4
    ELSE IF rec_size = 6 * 8 + 2 * SizeofDouble THEN DIRAC_INT_8
    ELSE -1

\* test_dirac_integer_size opens, peeks and closes a stream of its own
DetectWidth ==
    /\ pc = "probe"
    /\ LET probe == unf_open
           rec_size == unf_next_rec_size(content, Width(path), probe)
           dirac_int_size == test_dirac_integer_size(rec_size)
       IN IF dirac_int_size # DIRAC_INT_4 /\ dirac_int_size # DIRAC_INT_8
          THEN /\ pc' = "done"
               /\ data' = NULL
               /\ returned' = Append(returned, NULL)
          ELSE /\ pc' = "rec1"
               /\ data' = << [CallocData EXCEPT !.dirac_int_size = dirac_int_size] >>
               /\ UNCHANGED returned
    /\ UNCHANGED <<content, path, stream, fermion_irrep_occs, nsymrpa>>

(***************************************************************************)
(* Record 1: header.                                                       *)
(***************************************************************************)
HeaderFailed(nread, err) == nread # 8 \/ err

mrconee_read_header ==
    /\ pc = "rec1"
    /\ LET w == data[1].dirac_int_size
           r == unf_read(content, Width(path), stream, NeedHeader(w), 8)
       IN /\ stream' = r.stream
          /\ IF HeaderFailed(r.nread, unf_error(r.stream))
             THEN ReturnNull
             ELSE /\ data' = << [data[1] EXCEPT
                                   !.num_spinors = ReadInt(w, NumSpinors(content)),
                                   !.nuc_rep_energy = "1.2345",
                                   !.group_arith = ReadInt(w, 2),
                                   !.is_spinfree = ReadInt(w, 0),
                                   !.scf_energy = "-7.89",
                                   !.invsym = ReadInt(w, InvSym(content))] >>
                  /\ pc' = "rec2"
                  /\ UNCHANGED returned
    /\ UNCHANGED <<content, path, fermion_irrep_occs, nsymrpa>>

(***************************************************************************)
(* Record 2: number of electrons in each fermion irrep.                    *)
(***************************************************************************)
\* int32_t nactive[8] after unf_read: the 4-byte reader fills the first
\* nsymrp entries, the 8-byte reader copies nactive_8[i] for i < nsymrp_8
NActiveLocal(w, c) ==
    [i \in 1..OccSlots |->
        IF w = DIRAC_INT_4
        THEN (IF i <= c.nsymrp THEN c.nactive[i] ELSE Uninit)
        ELSE (IF Less64(i - 1, Enc8(c.nsymrp))
              THEN Cast32(Enc8(c.nactive[i])) ELSE Uninit)]

\* the bound nsymrp of the copying loop: the 4-byte reader decodes it, the
\* 8-byte reader decodes nsymrp_8 and leaves nsymrp as it was (junk)
OccLoopBound(w, c, junk) == IF w = DIRAC_INT_4 THEN c.nsymrp ELSE junk

\* for (i = 0; i < nsymrp; i++) fermion_irrep_occs[i] = nactive[i];
CopyOccs(occs, nactive, nsymrp) ==
    [i \in 1..OccSlots |-> IF i <= nsymrp THEN nactive[i] ELSE occs[i]]

OccsFailed(nread) == nread # 8

mrconee_read_fermion_irrep_occs ==
    /\ pc = "rec2"
    /\ LET w == data[1].dirac_int_size
           invsym == data[1].invsym
           need == NeedOccs(w, ReadCount(w, content.nsymrp), invsym)
           r == unf_read(content, Width(path), stream, need, 8)
       IN /\ stream' = r.stream
          /\ IF OccsFailed(r.nread)
             THEN /\ ReturnNull
                  /\ UNCHANGED fermion_irrep_occs
             ELSE \E junk \in 0..(OccSlots + 1) :
                    LET nsymrp == OccLoopBound(w, content, junk)
                    IN IF nsymrp > OccSlots
                       \* the loop runs past both arrays
                       THEN /\ pc' = "crashed"
                            /\ UNCHANGED <<data, returned, fermion_irrep_occs>>
                       ELSE /\ fermion_irrep_occs' =
                                 CopyOccs(fermion_irrep_occs,
                                          NActiveLocal(w, content), nsymrp)
                            /\ pc' = "rec3_count"
                            /\ UNCHANGED <<data, returned>>
    /\ UNCHANGED <<content, path, nsymrpa>>

(***************************************************************************)
(* Symmetry classifier.                                                    *)
(***************************************************************************)
\* static void detect_dirac_point_group(rep_names, group_name, fully_sym_irrep)
detect_dirac_point_group(rep_names) ==
    LET n0 == rep_names[1]
        n1 == rep_names[2]
        R(name, sym) == [group_name |-> name, fully_sym_irrep |-> sym]
    IN IF n0 = "A  a" /\ n1 = "A  b" THEN R("C1", 4)
       ELSE IF n0 = "Ag a" /\ n1 = "Au a" THEN R("Ci", 8)
       ELSE IF n0 = "A  a" /\ n1 = "B  a" THEN R("C2", 8)
       ELSE IF n0 = "A' a" /\ n1 = "A\" a" THEN R("Cs", 8)
       ELSE IF n0 = "A1 a" THEN R("C2v", 16)
       ELSE IF n0 = "A  a" THEN R("D2", 16)
       ELSE IF n0 = "Ag a" /\ n1 = "Bg a" THEN R("C2h", 16)
       ELSE IF n0 = "Ag a" THEN R("D2h", 32)
       ELSE IF n0 = "   A" /\ n1 = "   a" THEN R("C1", 1)
       ELSE IF n0 = "  AG" /\ n1 = "  AU" THEN R("Ci", 2)
       ELSE IF n0 = "  1E" /\ n1 = "  2E" THEN R("C2, Cs, C2v or D2", 2)
       ELSE IF n0 = " 1Eg" /\ n1 = " 2Eg" THEN R("C2h or D2h", 4)
       ELSE IF n0 = "   1" /\ n1 = "  -1" THEN R("Cinfv", 32)
       ELSE IF n0 = "  1g" /\ n1 = " -1g" THEN R("Dinfh", 32)
       ELSE R("undetected", 0)

\* int rep_name_exists(int nrep, char **list, char *query)
rep_name_exists(nrep, list, query) ==
    \E i \in 1..nrep : list[i] = query

TrC1 ==
    << "A_a", "A_b", "A_-3/2", "A_+3/2", "A_0", "A_2", "A_+1", "A_-1" >>

TrC2 ==
    << "A_a", "B_a", "A_b", "B_b", "A_-3/2", "B_-3/2", "A_+3/2", "B_+3/2",
       "A_0", "B_0", "A_2", "B_2", "A_+1", "B_+1", "A_-1", "B_-1" >>

TrCs ==
    << "A'_a", "A\"_a", "A'_b", "A\"_b", "A'_-3/2", "A\"_-3/2", "A'_+3/2",
       "A\"_+3/2", "A'_0", "A\"_0", "A'_2", "A\"_2", "A'_+1", "A\"_+1",
       "A'_-1", "A\"_-1" >>

TrCi ==
    << "Ag_a", "Au_a", "Ag_b", "Au_b", "Ag_-3/2", "Au_-3/2", "Ag_+3/2",
       "Au_+3/2", "Ag_0", "Au_0", "Ag_2", "Au_2", "Ag_+1", "Au_+1",
       "Ag_-1", "Au_-1" >>

TrC2v ==
    << "A1_a", "B2_a", "B1_a", "A2_a", "A1_b", "B2_b", "B1_b", "A2_b",
       "A1_-3/2", "B2_-3/2", "B1_-3/2", "A2_-3/2", "A1_+3/2", "B2_+3/2",
       "B1_+3/2", "A2_+3/2", "A1_0", "B2_0", "B1_0", "A2_0", "A1_2",
       "B2_2", "B1_2", "A2_2", "A1_+1", "B2_+1", "B1_+1", "A2_+1", "A1_-1",
       "B2_-1", "B1_-1", "A2_-1" >>

TrC2h ==
    << "Ag_a", "Bg_a", "Bu_a", "Au_a", "Ag_b", "Bg_b", "Bu_b", "Au_b",
       "Ag_-3/2", "Bg_-3/2", "Bu_-3/2", "Au_-3/2", "Ag_+3/2", "Bg_+3/2",
       "Bu_+3/2", "Au_+3/2", "Ag_0", "Bg_0", "Bu_0", "Au_0", "Ag_2",
       "Bg_2", "Bu_2", "Au_2", "Ag_+1", "Bg_+1", "Bu_+1", "Au_+1", "Ag_-1",
       "Bg_-1", "Bu_-1", "Au_-1" >>

TrD2 ==
    << "A_a", "B3_a", "B1_a", "B2_a", "A_b", "B3_b", "B1_b", "B2_b",
       "A_-3/2", "B3_-3/2", "B1_-3/2", "B2_-3/2", "A_+3/2", "B3_+3/2",
       "B1_+3/2", "B2_+3/2", "A_0", "B3_0", "B1_0", "B2_0", "A_2", "B3_2",
       "B1_2", "B2_2", "A_+1", "B3_+1", "B1_+1", "B2_+1", "A_-1", "B3_-1",
       "B1_-1", "B2_-1" >>

TrD2h ==
    << "Ag_a", "B1u_a", "B2u_a", "B3g_a", "B3u_a", "B2g_a", "B1g_a",
       "Au_a", "Ag_b", "B1u_b", "B2u_b", "B3g_b", "B3u_b", "B2g_b",
       "B1g_b", "Au_b", "Ag_-3/2", "B1u_-3/2", "B2u_-3/2", "B3g_-3/2",
       "B3u_-3/2", "B2g_-3/2", "B1g_-3/2", "Au_-3/2", "Ag_+3/2",
       "B1u_+3/2", "B2u_+3/2", "B3g_+3/2", "B3u_+3/2", "B2g_+3/2",
       "B1g_+3/2", "Au_+3/2", "Ag_0", "B1u_0", "B2u_0", "B3g_0", "B3u_0",
       "B2g_0", "B1g_0", "Au_0", "Ag_2", "B1u_2", "B2u_2", "B3g_2",
       "B3u_2", "B2g_2", "B1g_2", "Au_2", "Ag_+1", "B1u_+1", "B2u_+1",
       "B3g_+1", "B3u_+1", "B2g_+1", "B1g_+1", "Au_+1", "Ag_-1", "B1u_-1",
       "B2u_-1", "B3g_-1", "B3u_-1", "B2g_-1", "B1g_-1", "Au_-1" >>

TrCinfv ==
    << "1/2+", "1/2-", "3/2+", "3/2-", "5/2+", "5/2-", "7/2+", "7/2-",
       "9/2+", "9/2-", "11/2+", "11/2-", "13/2+", "13/2-", "15/2+",
       "15/2-", "17/2+", "17/2-", "19/2+", "19/2-", "21/2+", "21/2-",
       "23/2+", "23/2-", "25/2+", "25/2-", "27/2+", "27/2-", "29/2+",
       "29/2-", "31/2+", "31/2-", "0", "1+", "1-", "2+", "2-", "3+", "3-",
       "4+", "4-", "5+", "5-", "6+", "6-", "7+", "7-", "8+", "8-", "9+",
       "9-", "10+", "10-", "11+", "11-", "12+", "12-", "13+", "13-", "14+",
       "14-", "15+", "15-", "16+" >>

TrDinfh ==
    << "1/2g+", "1/2g-", "3/2g+", "3/2g-", "5/2g+", "5/2g-", "7/2g+",
       "7/2g-", "9/2g+", "9/2g-", "11/2g+", "11/2g-", "13/2g+", "13/2g-",
       "15/2g+", "15/2g-", "1/2u+", "1/2u-", "3/2u+", "3/2u-", "5/2u+",
       "5/2u-", "7/2u+", "7/2u-", "9/2u+", "9/2u-", "11/2u+", "11/2u-",
       "13/2u+", "13/2u-", "15/2u+", "15/2u-", "0g", "1g+", "1g-", "2g+",
       "2g-", "3g+", "3g-", "4g+", "4g-", "5g+", "5g-", "6g+", "6g-",
       "7g+", "7g-", "8g+", "0u", "1u+", "1u-", "2u+", "2u-", "3u+", "3u-",
       "4u+", "4u-", "5u+", "5u-", "6u+", "6u-", "7u+", "7u-", "8u+" >>

\* the four explicit lists of the double groups
TrC1Rel == << "A", "a" >>
TrCiRel == << "AG", "AU", "ag", "au" >>
TrC2Rel == << "1E", "2E", "a", "b" >>
TrC2hRel == << "1Eg", "2Eg", "1Eu", "2Eu", "ag", "bg", "au", "bu" >>

\* what strcpy leaves in a name when its source pointer lies past the list
Garbage == "<garbage>"

\* for (irep = 0; irep < nsym; irep++) strcpy(rep_names[irep], translation[irep]);
Translate(nsym, rep_names, translation) ==
    [k \in 1..nsym |-> IF k <= Len(translation) THEN translation[k] ELSE Garbage]

\* strcpy(rep_names[0], ...); strcpy(rep_names[1], ...); ... one per entry
Overwrite(nsym, rep_names, list) ==
    [k \in 1..nsym |-> IF k <= Len(list) THEN list[k] ELSE rep_names[k]]

\* the conditions of the fourteen blocks of rename_irreps_dirac_to_expt
RenameSig(j, nsym, t) ==
    CASE j = 1 -> t[1] = "A  a" /\ t[2] = "A  b"
      [] j = 2 -> t[1] = "A  a" /\ t[2] = "B  a"
      [] j = 3 -> t[1] = "A' a" /\ t[2] = "A\" a"
      [] j = 4 -> /\ rep_name_exists(nsym, t, "Ag a")
                  /\ rep_name_exists(nsym, t, "Au a")
                  /\ rep_name_exists(nsym, t, "Ag b")
                  /\ rep_name_exists(nsym, t, "Au b")
                  /\ ~rep_name_exists(nsym, t, "Bg a")
                  /\ ~rep_name_exists(nsym, t, "B3ua")
      [] j = 5 -> \/ t[1] = "A1 a" /\ t[2] = "B2 a"
                  \/ t[1] = "A1 a" /\ t[2] = "B1 a"
      [] j = 6 -> /\ rep_name_exists(nsym, t, "Ag a")
                  /\ rep_name_exists(nsym, t, "Au a")
                  /\ rep_name_exists(nsym, t, "Ag b")
                  /\ rep_name_exists(nsym, t, "Au b")
                  /\ rep_name_exists(nsym, t, "Bg a")
                  /\ rep_name_exists(nsym, t, "Bu a")
                  /\ rep_name_exists(nsym, t, "Bg b")
                  /\ rep_name_exists(nsym, t, "Bu b")
      [] j = 7 -> t[1] = "A  a" /\ t[2] = "B3 a"
      [] j = 8 -> t[1] = "Ag a" /\ t[2] \in {"B1ua", "B2ua", "B3ua",
                                              "B1ga", "B2ga", "B3ga"}
      [] j = 9 -> t[1] = "   A" /\ t[2] = "   a"
      [] j = 10 -> t[1] = "  AG" /\ t[2] = "  AU"
      [] j = 11 -> t[1] = "  1E" /\ t[2] = "  2E"
      [] j = 12 -> t[1] = " 1Eg" /\ t[2] = " 2Eg"
      [] j = 13 -> t[1] = "   1" /\ t[2] = "  -1"
      [] j = 14 -> t[1] = "  1g" /\ t[2] = " -1g"

\* the list block j copies from
RenameList(j) ==
    CASE j = 1 -> TrC1 [] j = 2 -> TrC2 [] j = 3 -> TrCs [] j = 4 -> TrCi
      [] j = 5 -> TrC2v [] j = 6 -> TrC2h [] j = 7 -> TrD2 [] j = 8 -> TrD2h
      [] j = 9 -> TrC1Rel [] j = 10 -> TrCiRel [] j = 11 -> TrC2Rel
      [] j = 12 -> TrC2hRel [] j = 13 -> TrCinfv [] j = 14 -> TrDinfh

\* blocks 9-12 copy their whole list whatever nsym is, the others copy nsym
\* entries whatever the length of their list is
RenameBlock(j, nsym, t) ==
    IF ~RenameSig(j, nsym, t) THEN t
    ELSE IF j \in 9..12 THEN Overwrite(nsym, t, RenameList(j))
    ELSE Translate(nsym, t, RenameList(j))

\* block j reads past its list or writes past the table
RenameBlockOOB(j, nsym, t) ==
    /\ RenameSig(j, nsym, t)
    /\ IF j \in 9..12 THEN Len(RenameList(j)) > nsym
                      ELSE nsym > Len(RenameList(j))

RECURSIVE RenameFrom(_, _, _)
\* blocks j..14 in the order of the source, each on the table the previous left
RenameFrom(j, nsym, t) ==
    IF j > 14 THEN [names |-> t, oob |-> FALSE]
    ELSE LET rest == RenameFrom(j + 1, nsym, RenameBlock(j, nsym, t))
         IN [names |-> rest.names,
             oob |-> rest.oob \/ RenameBlockOOB(j, nsym, t)]

\* void rename_irreps_dirac_to_expt(int nsym, char **rep_names)
rename_irreps_dirac_to_expt(nsym, rep_names) == RenameFrom(1, nsym, rep_names)

(***************************************************************************)
(* Record 3: irreps of the abelian subgroup (count, backspace, reread).    *)
(***************************************************************************)
\* unf_read(file, "iW", &nsymrpa): the count is decoded when the record is
\* there and holds at least the w bytes of the count
mrconee_read_abelian_irreps_count ==
    /\ pc = "rec3_count"
    /\ LET w == data[1].dirac_int_size
           r == unf_read(content, Width(path), stream, w, 1)
           decoded == /\ stream.pos <= NumRecs(content)
                      /\ RecLen(content, Width(path), stream.pos) >= w
       IN /\ stream' = r.stream
          /\ nsymrpa' = IF decoded THEN ReadInt(w, NSymRpa(content)) ELSE nsymrpa
    /\ pc' = "rec3_back"
    /\ UNCHANGED <<content, path, data, fermion_irrep_occs, returned>>

\* unf_backspace(file);
mrconee_read_abelian_irreps_backspace ==
    /\ pc = "rec3_back"
    /\ stream' = unf_backspace(stream)
    /\ pc' = "rec3_names"
    /\ UNCHANGED <<content, path, data, fermion_irrep_occs, nsymrpa, returned>>

NamesFailed(nread, err) == nread # 2 \/ err

\* the reread with size_repanames = 2 * nsymrpa, then lines 281-295
mrconee_read_abelian_irreps ==
    /\ pc = "rec3_names"
    /\ LET w == data[1].dirac_int_size
           size_repanames == 2 * nsymrpa
           r == unf_read(content, Width(path), stream,
                         NeedNames(w, size_repanames), 2)
       IN /\ stream' = r.stream
          /\ IF NamesFailed(r.nread, unf_error(r.stream))
             THEN /\ ReturnNull
                  /\ UNCHANGED nsymrpa
             ELSE LET count == ReadInt(w, NSymRpa(content))
                      num_irreps == 2 * count
                      raw == [i \in 1..num_irreps |-> content.names[i]]
                      det == detect_dirac_point_group(raw)
                      ren == rename_irreps_dirac_to_expt(num_irreps, raw)
                  IN /\ nsymrpa' = count
                     /\ UNCHANGED returned
                     \* a strcpy through a pointer past the list or the table
                     \* stops the run or goes unnoticed
                     /\ \E stops \in (IF ren.oob THEN BOOLEAN ELSE {FALSE}) :
                          IF stops
                          THEN /\ data' = data
                               /\ pc' = "crashed"
                          ELSE /\ data' = << [data[1] EXCEPT
                                    !.num_irreps = num_irreps,
                                    !.irrep_names = ren.names,
                                    !.point_group = det.group_name,
                                    !.totally_sym_irrep = det.fully_sym_irrep] >>
                               /\ pc' = "rec4"
    /\ UNCHANGED <<content, path, fermion_irrep_occs>>

(***************************************************************************)
(* Record 4: irrep multiplication table.                                   *)
(***************************************************************************)
\* a check that takes only a count of 0 as a failure
MultbFailedZero(nread, err) == nread = 0

MultbFailed(nread, err) == nread # 1 \/ err

\* a table filled in the order of the block: entry (i, j) from i * n + j
MultTableRowMajor(n, multb) ==
    [i \in 1..n |-> [j \in 1..n |-> multb[(i - 1) * n + (j - 1) + 1]]]

\* data->mult_table[i][j] = multb[j * num_irreps + i]  (rows, columns from 1)
MultTable(n, multb) ==
    [i \in 1..n |-> [j \in 1..n |-> multb[(j - 1) * n + (i - 1) + 1]]]

mrconee_read_multiplication_table ==
    /\ pc = "rec4"
    /\ LET w == data[1].dirac_int_size
           n == data[1].num_irreps
           multb_size == n * n
           r == unf_read(content, Width(path), stream,
                         NeedMultb(w, multb_size), 1)
       IN /\ stream' = r.stream
          /\ IF MultbFailed(r.nread, unf_error(r.stream))
             THEN ReturnNull
             ELSE LET multb == [k \in 1..multb_size |->
                                   ReadInt(w, FlatMultb(Len(content.names))[k])]
                  IN /\ data' = << [data[1] EXCEPT
                                      !.mult_table = MultTable(n, multb)] >>
                     /\ pc' = "rec5"
                     /\ UNCHANGED returned
    /\ UNCHANGED <<content, path, fermion_irrep_occs, nsymrpa>>

(***************************************************************************)
(* Record 5: information about spinors.                                    *)
(***************************************************************************)
SpinorsFailed(nread, err) == nread # 1 \/ err

\* a comparison that still takes a spinor when the count is used up
OccAvailableOrZero(count) == count >= 0

\* if (fermion_irrep_occs[irp - 1] > 0)
OccAvailable(count) == count > 0

RECURSIVE OccLoop(_, _, _, _, _, _)
\* iterations i..n of the loop of lines 361-379.  irp[i] is the first integer
\* of element i; a slot that was never assigned compares as junk[i] says and
\* stays unassigned
OccLoop(i, n, irp, occs, occ_numbers, junk) ==
    IF i > n THEN [occs |-> occs, occ_numbers |-> occ_numbers]
    ELSE LET slot == occs[irp[i]]
             taken == IF slot = Uninit THEN junk[i] ELSE OccAvailable(slot)
         IN IF taken
            THEN OccLoop(i + 1, n, irp,
                         [occs EXCEPT ![irp[i]] =
                              IF slot = Uninit THEN Uninit ELSE slot - 1],
                         [occ_numbers EXCEPT ![i] = 1], junk)
            ELSE OccLoop(i + 1, n, irp, occs, occ_numbers, junk)

mrconee_read_spinor_info ==
    /\ pc = "rec5"
    /\ LET w == data[1].dirac_int_size
           num_spinors == data[1].num_spinors
           element_size == 2 * w + SizeofDouble
           buf_size == num_spinors * element_size
           r == unf_read(content, Width(path), stream, NeedSpinors(buf_size), 1)
       IN /\ stream' = r.stream
          /\ IF SpinorsFailed(r.nread, unf_error(r.stream))
             THEN /\ ReturnNull
                  /\ UNCHANGED fermion_irrep_occs
             ELSE LET irp == [i \in 1..num_spinors |->
                                 ReadInt(w, content.spinors[i].irp)]
                  IN IF \E i \in 1..num_spinors : irp[i] \notin 1..OccSlots
                     \* fermion_irrep_occs[irp - 1] lies outside the array
                     THEN /\ pc' = "crashed"
                          /\ UNCHANGED <<data, returned, fermion_irrep_occs>>
                     ELSE \E junk \in [1..num_spinors -> BOOLEAN] :
                            LET res == OccLoop(1, num_spinors, irp,
                                               fermion_irrep_occs,
                                               [i \in 1..num_spinors |-> 0], junk)
                            IN /\ fermion_irrep_occs' = res.occs
                               /\ data' = << [data[1] EXCEPT
                                    !.occ_numbers = res.occ_numbers,
                                    !.spinor_irreps =
                                        [i \in 1..num_spinors |->
                                           ReadInt(w, content.spinors[i].irpa) - 1],
                                    !.spinor_energies =
                                        [i \in 1..num_spinors |->
                                           content.spinors[i].eps]] >>
                               /\ pc' = "rec6"
                               /\ UNCHANGED returned
    /\ UNCHANGED <<content, path, nsymrpa>>

(***************************************************************************)
(* Record 6: Fock matrix, and the return of read_mrconee.                  *)
(***************************************************************************)
\* a check that takes only a count of 0 as a failure
FockFailedZero(nread, err) == nread = 0

FockFailed(nread, err) == nread # 1 \/ err

mrconee_read_fock ==
    /\ pc = "rec6"
    /\ LET n == data[1].num_spinors
           fock_size == n * n
           r == unf_read(content, Width(path), stream, NeedFock(fock_size), 1)
       IN /\ stream' = r.stream
          /\ IF FockFailed(r.nread, unf_error(r.stream))
             THEN ReturnNull
             ELSE LET full == << [data[1] EXCEPT
                                    !.fock = [k \in 1..fock_size |->
                                                FlatFock(NumSpinors(content))[k]]] >>
                  IN /\ data' = full
                     /\ returned' = Append(returned, full)
                     /\ pc' = "done"
    /\ UNCHANGED <<content, path, fermion_irrep_occs, nsymrpa>>

(***************************************************************************)
(* One invocation of read_mrconee.                                         *)
(***************************************************************************)
Next ==
    \/ OpenFile
    \/ DetectWidth
    \/ mrconee_read_header
    \/ mrconee_read_fermion_irrep_occs
    \/ mrconee_read_abelian_irreps_count
    \/ mrconee_read_abelian_irreps_backspace
    \/ mrconee_read_abelian_irreps
    \/ mrconee_read_multiplication_table
    \/ mrconee_read_spinor_info
    \/ mrconee_read_fock

Spec == Init /\ [][Next]_vars

(***************************************************************************)
(* Two invocations on the fixtures of one well-formed content.             *)
(***************************************************************************)
\* a caller invokes read_mrconee again: new locals, a new stream
Restart ==
    /\ pc = "done"
    /\ Len(returned) < MaxRuns
    /\ path' \in {"mrconee4", "mrconee8"}
    /\ pc' = "open"
    /\ stream' = ClosedStream
    /\ data' = NULL
    /\ fermion_irrep_occs' = UninitOccs
    /\ nsymrpa' = Uninit
    /\ UNCHANGED <<content, returned>>

InitTwice ==
    /\ content \in { c \in Contents : c.defect = <<"none", 0>> }
    /\ path \in {"mrconee4", "mrconee8"}
    /\ pc = "open"
    /\ stream = ClosedStream
    /\ data = NULL
    /\ fermion_irrep_occs = UninitOccs
    /\ nsymrpa = Uninit
    /\ returned = <<>>

NextTwice == Next \/ Restart

SpecTwice == InitTwice /\ [][NextTwice]_vars

(***************************************************************************)
(* One invocation on fixtures that vary the counts of record 2 and the     *)
(* fermion irreps of record 5.                                             *)
(***************************************************************************)
\* the example of the specification
ExampleCounts == <<2, 0, 1>>
ExampleIrreps == <<1, 1, 1, 2, 3, 3>>

OccContents ==
    { [ spinors |-> [i \in 1..Len(irps) |->
                        [irp |-> irps[i], irpa |-> 1, eps |-> 10 * i]],
        nsymrp |-> 3, nactive |-> na, invsym |-> 1,
        names |-> <<"X  a", "Y  a">>, defect |-> <<"none", 0>> ] :
        irps \in SeqsUpTo(1..3, MaxOccSpinors) \cup {ExampleIrreps},
        na \in [1..3 -> 0..MaxOccCount] }

InitOcc ==
    /\ content \in OccContents
    /\ path \in {"mrconee4", "mrconee8"}
    /\ pc = "open"
    /\ stream = ClosedStream
    /\ data = NULL
    /\ fermion_irrep_occs = UninitOccs
    /\ nsymrpa = Uninit
    /\ returned = <<>>

SpecOcc == InitOcc /\ [][Next]_vars

(***************************************************************************)
(* Auxiliary definitions of the properties.                                *)
(***************************************************************************)
\* the record a position of read_mrconee reads, 0 when it reads none
RecordOf(p) ==
    CASE p = "rec1" -> 1
      [] p = "rec2" -> 2
      [] p \in {"rec3_count", "rec3_back", "rec3_names"} -> 3
      [] p = "rec4" -> 4
      [] p = "rec5" -> 5
      [] p = "rec6" -> 6
      [] OTHER -> 0

\* the value the latest finished invocation returned
LastReturned == returned[Len(returned)]

\* declared length of the first record of the fixture (-1: there is none)
FirstRecLen == unf_next_rec_size(content, Width(path), unf_open)

\* every field of the aggregate is filled
Complete(d) ==
    /\ d.dirac_int_size \in {DIRAC_INT_4, DIRAC_INT_8}
    /\ d.point_group # ""
    /\ Len(d.irrep_names) = d.num_irreps
    /\ Len(d.mult_table) = d.num_irreps
    /\ Len(d.occ_numbers) = d.num_spinors
    /\ Len(d.spinor_irreps) = d.num_spinors
    /\ Len(d.spinor_energies) = d.num_spinors
    /\ Len(d.fock) = d.num_spinors * d.num_spinors

(***************************************************************************)
(* C1: the width test selects 4 exactly for a first record of 40 bytes, 8  *)
(* exactly for one of 64 bytes and fails for every other length; on that   *)
(* failure read_mrconee returns NULL and has read no record.               *)
(***************************************************************************)
C1_WidthDetection ==
    [][ pc = "probe" =>
          /\ (FirstRecLen = 40) <=>
                (pc' = "rec1" /\ data'[1].dirac_int_size = DIRAC_INT_4)
          /\ (FirstRecLen = 64) <=>
                (pc' = "rec1" /\ data'[1].dirac_int_size = DIRAC_INT_8)
          /\ (FirstRecLen \notin {40, 64}) <=>
                /\ pc' = "done"
                /\ returned' = Append(returned, NULL)
                /\ data' = NULL
                /\ stream'.pos = 1
                /\ stream'.last = "none" ]_vars

\* a fixture whose first record is one byte short was refused unread
C1_Witness ==
    /\ pc = "done"
    /\ path = "mrconee8"
    /\ FirstRecLen = 63
    /\ returned = << NULL >>
    /\ stream.pos = 1

C3_ClosedOnExit == pc = "done" => ~stream.open

\* the fermion irreps of the spinors of the fixture, in file order
FileIrreps == [i \in 1..NumSpinors(content) |-> content.spinors[i].irp]

\* number of spinors before i that have the fermion irrep of spinor i
EarlierOfSameIrrep(irp, i) == Cardinality({ j \in 1..(i - 1) : irp[j] = irp[i] })

(***************************************************************************)
(* C4: with every count the spinors refer to declared (assigned, not       *)
(* negative), spinor i is occupied exactly when fewer than count[irp(i)]   *)
(* earlier spinors have its fermion irrep; no irrep gets more occupied     *)
(* spinors than its count, no remaining count is negative; counts [2,0,1]  *)
(* with irreps [1,1,1,2,3,3] give [1,1,0,0,1,0].                           *)
(***************************************************************************)
C4_GreedyOccupation ==
    [][ ( /\ pc = "rec5"
          /\ pc' = "rec6"
          /\ \A i \in 1..NumSpinors(content) :
                /\ FileIrreps[i] \in 1..OccSlots
                /\ fermion_irrep_occs[FileIrreps[i]] # Uninit
                /\ fermion_irrep_occs[FileIrreps[i]] >= 0 ) =>
        LET n == NumSpinors(content)
            occ == data'[1].occ_numbers
        IN /\ Len(occ) = n
           /\ \A i \in 1..n :
                 /\ occ[i] \in {0, 1}
                 /\ occ[i] = 1 <=>
                      EarlierOfSameIrrep(FileIrreps, i)
                          < fermion_irrep_occs[FileIrreps[i]]
           /\ \A r \in { FileIrreps[i] : i \in 1..n } :
                 /\ Cardinality({ i \in 1..n : FileIrreps[i] = r /\ occ[i] = 1 })
                        <= fermion_irrep_occs[r]
                 /\ fermion_irrep_occs'[r] >= 0
           /\ ( /\ FileIrreps = ExampleIrreps
                /\ \A r \in 1..3 : fermion_irrep_occs[r] = ExampleCounts[r] ) =>
                 occ = <<1, 1, 0, 0, 1, 0>> ]_vars

\* the example of the specification was decoded
C4_Witness ==
    /\ pc = "rec6"
    /\ FileIrreps = ExampleIrreps
    /\ content.nactive = ExampleCounts
    /\ data[1].occ_numbers = <<1, 1, 0, 0, 1, 0>>
    /\ \A r \in 1..3 : fermion_irrep_occs[r] = 0

\* the translation list of the catalog entry with that label and index
CatalogList(group_name, fully_sym_irrep) ==
    CASE group_name = "C1" /\ fully_sym_irrep = 4 -> TrC1
      [] group_name = "Ci" /\ fully_sym_irrep = 8 -> TrCi
      [] group_name = "C2" -> TrC2
      [] group_name = "Cs" -> TrCs
      [] group_name = "C2v" -> TrC2v
      [] group_name = "D2" -> TrD2
      [] group_name = "C2h" -> TrC2h
      [] group_name = "D2h" -> TrD2h
      [] group_name = "C1" /\ fully_sym_irrep = 1 -> TrC1Rel
      [] group_name = "Ci" /\ fully_sym_irrep = 2 -> TrCiRel
      [] group_name = "C2, Cs, C2v or D2" -> TrC2Rel
      [] group_name = "C2h or D2h" -> TrC2hRel
      [] group_name = "Cinfv" -> TrCinfv
      [] group_name = "Dinfh" -> TrDinfh

(***************************************************************************)
(* C5: when the classifier assigns a label other than "undetected", every  *)
(* entry k of the irrep-name table is, after the rename step, the k-th     *)
(* entry of the translation list of the matched signature.                 *)
(***************************************************************************)
C5_RenamedOnMatch ==
    (pc = "rec4" /\ data[1].point_group # "undetected") =>
        LET list == CatalogList(data[1].point_group, data[1].totally_sym_irrep)
        IN \A k \in 1..data[1].num_irreps :
              /\ k <= Len(list)
              /\ data[1].irrep_names[k] = list[k]

(***************************************************************************)
(* C6: when no signature matches, the label is "undetected", the index 0,  *)
(* the irrep-name table is the raw table of the record, and record 3 has   *)
(* not failed.                                                             *)
(***************************************************************************)
C6_UndetectedUnchanged ==
    (pc = "rec4" /\ data[1].point_group = "undetected") =>
        /\ data[1].totally_sym_irrep = 0
        /\ data[1].irrep_names = content.names

\* an aggregate with its integer width blanked
WithoutWidth(d) == [d EXCEPT !.dirac_int_size = 0]

(***************************************************************************)
(* C7: the aggregates decoded from the 4-byte and the 8-byte fixture of    *)
(* one content carry the width of their fixture and agree in every other   *)
(* field.                                                                  *)
(***************************************************************************)
C7_WidthIndependent ==
    /\ (pc = "done" /\ LastReturned # NULL) =>
          LastReturned[1].dirac_int_size = Width(path)
    /\ \A i, j \in 1..Len(returned) :
          ( /\ returned[i] # NULL
            /\ returned[j] # NULL
            /\ returned[i][1].dirac_int_size = DIRAC_INT_4
            /\ returned[j][1].dirac_int_size = DIRAC_INT_8 ) =>
          WithoutWidth(returned[i][1]) = WithoutWidth(returned[j][1])

(***************************************************************************)
(* C8: a record whose declared length differs from what its fields need    *)
(* makes its read fail; a Fock record one byte short makes                 *)
(* mrconee_read_fock fail and read_mrconee return NULL.                    *)
(***************************************************************************)
C8_LengthMismatchFails ==
    ( /\ pc = "done"
      /\ path # "missing"
      /\ content.defect[1] \in {"short", "long"} ) =>
        /\ returned = << NULL >>
        /\ data = NULL
        /\ IF content.defect[2] = 1
           THEN stream.pos = 1
           ELSE stream.pos = content.defect[2] + 1 /\ stream.last = "partial"

\* the Fock record is one byte short: its read failed, NULL came back
C8_Witness ==
    /\ pc = "done"
    /\ content.defect = <<"short", 6>>
    /\ stream.pos = 7
    /\ stream.last = "partial"
    /\ unf_error(stream)
    /\ returned = << NULL >>
    /\ data = NULL

(***************************************************************************)
(* C9: two invocations on the same well-formed fixture return aggregates   *)
(* that are equal in every field.                                          *)
(***************************************************************************)
C9_Deterministic ==
    \A i, j \in 1..Len(returned) :
        ( /\ returned[i] # NULL
          /\ returned[j] # NULL
          /\ returned[i][1].dirac_int_size = returned[j][1].dirac_int_size ) =>
        returned[i] = returned[j]

(***************************************************************************)
(* C10: the irrep count of a returned aggregate is one of 2, 4, 8, 16, 32, *)
(* 64.                                                                     *)
(***************************************************************************)
C10_IrrepCountDoubledOrder ==
    (pc = "done" /\ LastReturned # NULL) =>
        LastReturned[1].num_irreps \in {2, 4, 8, 16, 32, 64}

(***************************************************************************)
(* C11: every spinor irrep index of a returned aggregate is an index into  *)
(* its irrep-name table: 0 <= index < irrep count.                         *)
(***************************************************************************)
C11_SpinorIrrepInTable ==
    (pc = "done" /\ LastReturned # NULL) =>
        \A i \in 1..LastReturned[1].num_spinors :
            /\ 0 <= LastReturned[1].spinor_irreps[i]
            /\ LastReturned[1].spinor_irreps[i] < LastReturned[1].num_irreps

(***************************************************************************)
(* C12: after record 4, for every i, j below the irrep count n, entry      *)
(* (i, j) of the multiplication table is the integer at position j * n + i *)
(* of the flat block of the record, unchanged (nothing is subtracted).     *)
(***************************************************************************)
C12_MultTableTransposed ==
    (pc = "rec5") =>
        LET n == data[1].num_irreps
            flat == FlatMultb(Len(content.names))
        IN /\ n = Len(content.names)
           /\ Len(data[1].mult_table) = n
           /\ \A i, j \in 0..(n - 1) :
                 data[1].mult_table[i + 1][j + 1] = flat[(j * n + i) + 1]

\* the flat block [1, 2, 3, 4] of two irreps was decoded from an 8-byte
\* file: table[0][0] = 1, table[1][0] = 2, table[0][1] = 3, table[1][1] = 4
C12_Witness ==
    /\ pc = "rec5"
    /\ data[1].dirac_int_size = DIRAC_INT_8
    /\ data[1].num_irreps = 2
    /\ data[1].mult_table[1][1] = 1
    /\ data[1].mult_table[2][1] = 2
    /\ data[1].mult_table[1][2] = 3
    /\ data[1].mult_table[2][2] = 4

(***************************************************************************)
(* C13: in record 3 the backspace is issued only right after a read that   *)
(* read record 3 in full or in part (so never after a backspace and never  *)
(* after a read that failed at the end of the stream); the reread that     *)
(* follows it starts at record 3, and after it record 4 is the next one.   *)
(***************************************************************************)
C13_BackspaceAfterRead ==
    /\ (pc = "rec3_back") =>
          /\ stream.last \in {"full", "partial"}
          /\ stream.pos = 4
    /\ (pc = "rec3_names") =>
          /\ stream.last = "backspace"
          /\ ~unf_error(stream)
          /\ stream.pos = 3
    /\ (pc = "rec4") =>
          /\ stream.last = "full"
          /\ stream.pos = 4

(***************************************************************************)
(* C14: for both widths, after record 2 was read the scratch table holds   *)
(* the i-th active-spinor count of the record for every i below its        *)
(* leading count, and no further entry was written.                        *)
(***************************************************************************)
C14_ScratchCounts ==
    (pc = "rec3_count") =>
        \A i \in 1..OccSlots :
            fermion_irrep_occs[i] =
                IF i <= content.nsymrp THEN content.nactive[i] ELSE Uninit

(***************************************************************************)
(* C15: the totally symmetric irrep index of a returned aggregate is an    *)
(* index into its irrep-name table: 0 <= index < irrep count.              *)
(***************************************************************************)
C15_TotallySymInTable ==
    (pc = "done" /\ LastReturned # NULL) =>
        /\ 0 <= LastReturned[1].totally_sym_irrep
        /\ LastReturned[1].totally_sym_irrep < LastReturned[1].num_irreps

====
